---- MODULE Spec2Model ----
(***************************************************************************)
(* Model of ate/tdr.py: TdrsCsv (the csv file of test data records),       *)
(* TdrsCsv.TestDataRecord (one row) and TdrsCsv.TestDataRecord.Test (one   *)
(* named test of a row).                                                   *)
(*                                                                         *)
(* Text is a sequence of tokens; a token is a run of characters that holds *)
(* neither a space nor a bracket, or one of " ", "[", "]" alone, so that   *)
(* substring tests and the split on " [" are computed, not assumed.        *)
(* A cell value is [k, s, n]: its Python type, its text and its number     *)
(* (floats in tenths).                                                     *)
(***************************************************************************)
EXTENDS Integers, Sequences, FiniteSets, TLC

\* csv_file   the rows of the file at csv_path, as the ATE has written them
\* df         TdrsCsv.df, the table of the last load
\* test_spec  TdrsCsv.test_spec, the Pcf.Section the tests are looked up in
\* record     the TestDataRecord the caller holds (NoRecord before the first)
\* test       the Test of that record the caller holds (NoTest when it holds
\*            none; a caller that takes another record lets go of its test)
\* ret        the last operation: its name, argument, exception and value
VARIABLES csv_file, df, test_spec, record, test, ret

vars == <<csv_file, df, test_spec, record, test, ret>>

\* most rows the csv file holds, latest timestamp a row carries
MaxRows == 2
MaxTime == 2

----------------------------------------------------------------------------
(* Values *)

None == [k |-> "NoneType", s |-> <<>>, n |-> 0]
StrV(t) == [k |-> "str", s |-> t, n |-> 0]
FloatV(x) == [k |-> "float", s |-> <<>>, n |-> x]
NaN == [k |-> "float", s |-> <<"nan">>, n |-> 0]
IntV(i) == [k |-> "int", s |-> <<>>, n |-> i]
BoolV(b) == [k |-> "bool", s |-> <<>>, n |-> IF b THEN 1 ELSE 0]
TimestampV(t) == [k |-> "Timestamp", s |-> <<>>, n |-> t]

Digit(d) == <<"0", "1", "2", "3", "4", "5", "6", "7", "8", "9">>[d + 1]

RECURSIVE IntStr(_)
IntStr(i) == IF i < 10 THEN <<Digit(i)>> ELSE IntStr(i \div 10) \o <<Digit(i % 10)>>

\* str(x) and '{}'.format(x)
Str(v) ==
    CASE v.k = "str" -> v.s
      [] v.k = "NoneType" -> <<"None">>
      [] v.k = "float" ->
            IF v.s # <<>> THEN v.s ELSE IntStr(v.n \div 10) \o <<".", Digit(v.n % 10)>>
      [] v.k = "int" -> IntStr(v.n)
      [] v.k = "bool" -> IF v.n = 1 THEN <<"True">> ELSE <<"False">>
      [] v.k = "Timestamp" -> <<"2024-01-01", " ", "10:00:0">> \o IntStr(v.n)

\* tok in text, for a token that is a whole word of the text
Contains(text, tok) == \E i \in DOMAIN text : text[i] = tok

\* the timestamp text the ATE writes, '%Y-%m-%d_%H:%M:%S.%f'
TimeText(t) == <<"2024-01-01_10:00:0", Digit(t), ".000000">>

----------------------------------------------------------------------------
(* Column names *)

DATE_COLUMN_NAME ==
    <<"[", "TIME", "]", " ", "TIMESTAMP", " ", "/", " ", "RECORD", " ", "ID">>
SERIAL_COLUMN_NAME ==
    <<"[", "CONFIG", "]", " ", "UUT", " ", "SERIAL", " ", "NUMBER">>
STATUS_COLUMN_NAME ==
    <<"[", "RESULT", "]", " ", "TEST", " ", "P/F", " ", "STATUS">>
MEAS_SUFFIX == <<" ", "[", "MEAS", "]">>

Voltage == <<"Voltage">>
Relay == <<"Relay">>
Current == <<"Current">>

----------------------------------------------------------------------------
(* pandas Series: an ordered sequence of labelled cells *)

Cell(l, v) == [label |-> l, val |-> v]
HasLabel(ser, l) == \E i \in DOMAIN ser : ser[i].label = l
\* ser[l], defined when HasLabel(ser, l); a KeyError otherwise
getitem(ser, l) == ser[CHOOSE i \in DOMAIN ser : ser[i].label = l].val
\* ser.get(l)
get(ser, l) == IF HasLabel(ser, l) THEN getitem(ser, l) ELSE None
\* ser.drop(l): a new Series, defined when HasLabel(ser, l); a KeyError otherwise
drop(ser, l) == SelectSeq(ser, LAMBDA c : c.label # l)

----------------------------------------------------------------------------
(* Outcome of a call: the exception that propagated out of it, or its value *)

Ok(v) == [raised |-> "", value |-> v]
Raise(e) == [raised |-> e, value |-> None]

----------------------------------------------------------------------------
(* The test specification, a Pcf.Section: canonical test name -> spec.      *)
(* test_spec[name] raises KeyError for a name outside its domain.           *)

SpecEntry(ty, nom, un, lo, hi) ==
    [data_type |-> ty, nominal |-> nom, units |-> un, low_limit |-> lo, high_limit |-> hi]
NoSpec == SpecEntry("", None, None, None, None)

VoltageSpec == SpecEntry("DBL", FloatV(50), StrV(<<"V">>), FloatV(49), FloatV(51))
TextSpec == SpecEntry("STRING", None, StrV(<<>>), None, None)
ColumnSpecs == (DATE_COLUMN_NAME :> TextSpec) @@ (SERIAL_COLUMN_NAME :> TextSpec)

\* only 'Voltage' is registered
OnlyVoltage == (Voltage :> VoltageSpec)
\* every column of the csv file is registered
AllColumns == OnlyVoltage @@ ColumnSpecs
WithRelay ==
    AllColumns @@ (Relay :> SpecEntry("BOOLEAN", FloatV(10), StrV(<<>>), FloatV(10), FloatV(10)))
BinaryNominal ==
    (Voltage :> SpecEntry("DBL", FloatV(10), StrV(<<"V">>), FloatV(10), FloatV(10)))
    @@ (Relay :> SpecEntry("DBL", FloatV(0), StrV(<<>>), FloatV(0), FloatV(0)))
    @@ ColumnSpecs
OtherTypes ==
    (Voltage :> SpecEntry("CORRELATION DBL", FloatV(50), StrV(<<"V">>), FloatV(49), FloatV(51)))
    @@ (Relay :> SpecEntry("I32", FloatV(10), StrV(<<>>), FloatV(10), FloatV(10)))
    @@ ColumnSpecs

TableSpecLookups == {OnlyVoltage, AllColumns}
SpecLookups == {OnlyVoltage, WithRelay, BinaryNominal, OtherTypes}

----------------------------------------------------------------------------
(* TdrsCsv.TestDataRecord.Test *)

NoRecord == [data |-> <<>>, date |-> None, serial |-> None, status |-> None]
NoTest == [_name |-> <<>>, data |-> None, operator |-> None, record |-> NoRecord, spec |-> NoSpec]

\* re.split(r' \[', s)[0]: the text before the first " [", all of it when there is none
RECURSIVE SplitFirst(_, _)
SplitFirst(s, i) ==
    IF i >= Len(s) THEN s
    ELSE IF s[i] = " " /\ s[i + 1] = "[" THEN SubSeq(s, 1, i - 1)
    ELSE SplitFirst(s, i + 1)

name(self) ==
    IF Contains(self._name, "[") THEN SplitFirst(self._name, 1) ELSE self._name

\* Test.__init__ with the lookup made by .get(): an unknown name gives no spec
Test_unchecked(outer, raw_name, data) ==
    LET self == [_name |-> raw_name, data |-> data, operator |-> None,
                 record |-> outer, spec |-> NoSpec]
    IN  Ok([self EXCEPT !.spec = IF name(self) \in DOMAIN test_spec
                                 THEN test_spec[name(self)] ELSE NoSpec])

\* Test.__init__; outer is always a TestDataRecord here, so no TypeError
Test(outer, raw_name, data) ==
    LET self == [_name |-> raw_name, data |-> data, operator |-> None,
                 record |-> outer, spec |-> NoSpec]
    IN  IF name(self) \in DOMAIN test_spec
        THEN Ok([self EXCEPT !.spec = test_spec[name(self)]])
        ELSE Raise("KeyError")

\* 'PASS' in self.data: a TypeError when data is no text
status(self) ==
    IF self.data.k = "str" THEN Ok(BoolV(Contains(self.data.s, "PASS")))
    ELSE Raise("TypeError")

type(self) == self.spec.data_type
nominal(self) == self.spec.nominal
units(self) == self.spec.units
low_limit(self) == self.spec.low_limit
high_limit(self) == self.spec.high_limit

\* Record.__getitem__ (kemx.templates): the test of the field named key
record_getitem(rec, key) ==
    IF HasLabel(rec.data, key) THEN Test(rec, key, getitem(rec.data, key))
    ELSE Raise("KeyError")

\* the outcome of reading self.meas: what it raised or returned, and self afterwards
Measured(e, v, self, op) == [raised |-> e, value |-> v, self |-> [self EXCEPT !.operator = op]]

\* meas with operator assigned after the sibling lookup instead of before it
meas_operator_on_success(self) ==
    IF type(self) = "DBL" THEN
        LET sibling == record_getitem(self.record, name(self) \o MEAS_SUFFIX)
        IN  IF sibling.raised = "" THEN Measured("", sibling.value.data, self, StrV(<<"<>">>))
            ELSE IF nominal(self) \in {FloatV(10), FloatV(0)}
                 THEN Measured("", IntV(IF nominal(self) = FloatV(0) THEN 1 ELSE 0), self,
                               StrV(<<"==">>))
                 ELSE Measured("", None, self, self.operator)
    ELSE IF type(self) = "BOOLEAN" THEN
        IF status(self).raised = "" THEN Measured("", IntV(status(self).value.n), self, StrV(<<"==">>))
        ELSE Measured(status(self).raised, None, self, StrV(<<"==">>))
    ELSE IF type(self) = "STRING" THEN Measured("", None, self, StrV(<<"==">>))
    ELSE IF type(self) = "CORRELATION DBL" THEN Measured("", None, self, StrV(<<"<>">>))
    ELSE Measured("", None, self, self.operator)

\* meas with the binary nominal tested before the sibling lookup
meas_nominal_first(self) ==
    IF type(self) = "DBL" THEN
        LET sibling == record_getitem(self.record, name(self) \o MEAS_SUFFIX)
        IN  IF nominal(self) \in {FloatV(10), FloatV(0)}
            THEN Measured("", IntV(IF nominal(self) = FloatV(0) THEN 1 ELSE 0), self,
                          StrV(<<"==">>))
            ELSE IF sibling.raised = ""
                 THEN Measured("", sibling.value.data, self, StrV(<<"<>">>))
                 ELSE Measured("", None, self, StrV(<<"<>">>))
    ELSE IF type(self) = "BOOLEAN" THEN
        IF status(self).raised = "" THEN Measured("", IntV(status(self).value.n), self, StrV(<<"==">>))
        ELSE Measured(status(self).raised, None, self, StrV(<<"==">>))
    ELSE IF type(self) = "STRING" THEN Measured("", None, self, StrV(<<"==">>))
    ELSE IF type(self) = "CORRELATION DBL" THEN Measured("", None, self, StrV(<<"<>">>))
    ELSE Measured("", None, self, self.operator)

meas(self) ==
    IF type(self) = "DBL" THEN
        LET sibling == record_getitem(self.record, name(self) \o MEAS_SUFFIX)
        IN  IF sibling.raised = "" THEN Measured("", sibling.value.data, self, StrV(<<"<>">>))
            ELSE IF nominal(self) \in {FloatV(10), FloatV(0)}
                 THEN Measured("", IntV(IF nominal(self) = FloatV(0) THEN 1 ELSE 0), self,
                               StrV(<<"==">>))
                 ELSE Measured("", None, self, StrV(<<"<>">>))
    ELSE IF type(self) = "BOOLEAN" THEN
        IF status(self).raised = "" THEN Measured("", IntV(status(self).value.n), self, StrV(<<"==">>))
        ELSE Measured(status(self).raised, None, self, StrV(<<"==">>))
    ELSE IF type(self) = "STRING" THEN Measured("", None, self, StrV(<<"==">>))
    ELSE IF type(self) = "CORRELATION DBL" THEN Measured("", None, self, StrV(<<"<>">>))
    ELSE Measured("", None, self, self.operator)

----------------------------------------------------------------------------
(* TdrsCsv.TestDataRecord *)

\* set_status with 'PASS' in data instead of data == 'PASS'
set_status_substring(self) ==
    IF HasLabel(self.data, STATUS_COLUMN_NAME)
    THEN Ok([self EXCEPT
                !.status = BoolV(Contains(Str(getitem(self.data, STATUS_COLUMN_NAME)), "PASS")),
                !.data = drop(self.data, STATUS_COLUMN_NAME)])
    ELSE Raise("KeyError")

\* set_status with the KeyError of a missing status field caught and dropped
set_status_swallowed(self) ==
    IF HasLabel(self.data, STATUS_COLUMN_NAME)
    THEN Ok([self EXCEPT
                !.status = BoolV(getitem(self.data, STATUS_COLUMN_NAME) = StrV(<<"PASS">>)),
                !.data = drop(self.data, STATUS_COLUMN_NAME)])
    ELSE Ok(self)

set_status(self) ==
    IF HasLabel(self.data, STATUS_COLUMN_NAME)
    THEN Ok([self EXCEPT
                !.status = BoolV(getitem(self.data, STATUS_COLUMN_NAME) = StrV(<<"PASS">>)),
                !.data = drop(self.data, STATUS_COLUMN_NAME)])
    ELSE Raise("KeyError")

\* TestDataRecord.__init__
TestDataRecord(data) ==
    set_status([data |-> data, date |-> get(data, DATE_COLUMN_NAME),
                serial |-> get(data, SERIAL_COLUMN_NAME), status |-> None])

\* Record.tests (kemx.templates): one Test per remaining field, in field order
RECURSIVE tests_from(_, _)
tests_from(self, i) ==
    IF i > Len(self.data) THEN Ok(<<>>)
    ELSE LET t == Test(self, self.data[i].label, self.data[i].val)
         IN  IF t.raised # "" THEN t
             ELSE LET rest == tests_from(self, i + 1)
                  IN  IF rest.raised # "" THEN rest ELSE Ok(<<t.value>> \o rest.value)

tests(self) == tests_from(self, 1)

\* the failed tests taken as the tests whose data holds no "PASS"
get_failed_tests_not_passed(self) ==
    IF tests(self).raised # "" THEN tests(self)
    ELSE Ok(SelectSeq(tests(self).value, LAMBDA t : ~Contains(Str(t.data), "PASS")))

get_failed_tests(self) ==
    IF tests(self).raised # "" THEN tests(self)
    ELSE Ok(SelectSeq(tests(self).value, LAMBDA t : Contains(Str(t.data), "FAIL")))

\* the line with the low limit written before the high limit
failline_low_first(t, m) ==
    <<"|ftestres=0,">> \o name(t) \o <<",">> \o Str(m.value) \o <<",">>
    \o Str(low_limit(t)) \o <<",">> \o Str(high_limit(t)) \o <<",">>
    \o Str(nominal(t)) \o <<",">> \o Str(units(t)) \o <<",">>
    \o Str(m.self.operator) \o <<"\n">>

\* one line of the fail string; meas is read before operator
failline(t, m) ==
    <<"|ftestres=0,">> \o name(t) \o <<",">> \o Str(m.value) \o <<",">>
    \o Str(high_limit(t)) \o <<",">> \o Str(low_limit(t)) \o <<",">>
    \o Str(nominal(t)) \o <<",">> \o Str(units(t)) \o <<",">>
    \o Str(m.self.operator) \o <<"\n">>

RECURSIVE failstring_from(_, _)
failstring_from(failed, i) ==
    IF i > Len(failed) THEN Ok(<<>>)
    ELSE LET m == meas(failed[i])
         IN  IF m.raised # "" THEN Raise(m.raised)
             ELSE LET rest == failstring_from(failed, i + 1)
                  IN  IF rest.raised # "" THEN rest
                      ELSE Ok(failline(failed[i], m) \o rest.value)

build_failstring(self) ==
    IF get_failed_tests(self).raised # "" THEN get_failed_tests(self)
    ELSE failstring_from(get_failed_tests(self).value, 1)

----------------------------------------------------------------------------
(* TdrsCsv: the csv file and its DataFrame *)

\* pd.to_datetime(text, format='%Y-%m-%d_%H:%M:%S.%f')
ParsesAsTime(v) == v.k = "str" /\ \E t \in 0..9 : v.s = TimeText(t)
to_datetime(v) == TimestampV(CHOOSE t \in 0..9 : v.s = TimeText(t))

\* pd.read_csv: the rows of the file, in file order
read_csv(file) == file

\* self.df after _to_datetime: the date column of every row converted
to_datetime_rows(rows) ==
    [i \in DOMAIN rows |->
        [j \in DOMAIN rows[i] |->
            IF rows[i][j].label = DATE_COLUMN_NAME
            THEN Cell(DATE_COLUMN_NAME, to_datetime(rows[i][j].val))
            ELSE rows[i][j]]]

DatesParse(rows) ==
    \A i \in DOMAIN rows : ParsesAsTime(getitem(rows[i], DATE_COLUMN_NAME))

\* the value of self.df that _update_df leaves, and what it raised
loaded(file) ==
    IF DatesParse(read_csv(file)) THEN Ok(to_datetime_rows(read_csv(file)))
    ELSE [raised |-> "ValueError", value |-> read_csv(file)]

\* the last position instead of the position of the greatest date
argmax_last(rows) == Len(rows)

\* Series.argmax of the date column: the first position of the greatest date
argmax(rows) ==
    CHOOSE i \in DOMAIN rows :
        /\ \A j \in DOMAIN rows :
              getitem(rows[j], DATE_COLUMN_NAME).n <= getitem(rows[i], DATE_COLUMN_NAME).n
        /\ \A j \in 1..(i - 1) :
              getitem(rows[j], DATE_COLUMN_NAME).n < getitem(rows[i], DATE_COLUMN_NAME).n

Returned(op, arg, r) == [op |-> op, arg |-> arg, raised |-> r.raised, value |-> r.value]

\* a row the ATE writes when a test sequence finishes at time t
AteRow(t, passed) ==
    << Cell(DATE_COLUMN_NAME, StrV(TimeText(t))),
       Cell(SERIAL_COLUMN_NAME, StrV(<<"SN123">>)),
       Cell(STATUS_COLUMN_NAME, StrV(IF passed THEN <<"PASS">> ELSE <<"FAIL">>)),
       Cell(Voltage \o MEAS_SUFFIX, FloatV(IF passed THEN 50 ELSE 48)),
       Cell(Voltage, StrV(IF passed THEN <<"PASS">> ELSE <<"FAIL">>)) >>

AteRows == {AteRow(t, p) : t \in 1..MaxTime, p \in BOOLEAN}

\* the ATE appends a row to the csv file
AppendRow(row) ==
    /\ Len(csv_file) < MaxRows
    /\ csv_file' = Append(csv_file, row)
    /\ ret' = Returned("append_row", row, Ok(None))
    /\ UNCHANGED <<df, test_spec, record, test>>

update_df ==
    /\ df' = loaded(csv_file).value
    /\ ret' = Returned("_update_df", None, [loaded(csv_file) EXCEPT !.value = None])
    /\ UNCHANGED <<csv_file, test_spec, record, test>>

\* the list built from the first row at every index
records_list_first_row(d) ==
    LET rs == [idx \in DOMAIN d |-> TestDataRecord(d[1])]
    IN  IF \E idx \in DOMAIN d : rs[idx].raised # ""
        THEN Raise(rs[CHOOSE idx \in DOMAIN d : rs[idx].raised # ""].raised)
        ELSE Ok([idx \in DOMAIN d |-> rs[idx].value])

\* the list the records property builds
records_list(d) ==
    LET rs == [idx \in DOMAIN d |-> TestDataRecord(d[idx])]
    IN  IF \E idx \in DOMAIN d : rs[idx].raised # ""
        THEN Raise(rs[CHOOSE idx \in DOMAIN d : rs[idx].raised # ""].raised)
        ELSE Ok([idx \in DOMAIN d |-> rs[idx].value])

\* records with the status field dropped from the rows of the table in place
records_inplace(i) ==
    /\ ret' = Returned("records", None, records_list(df))
    /\ record' = IF i = 0 \/ ret'.raised # "" THEN record ELSE ret'.value[i]
    /\ test' = IF record' = record THEN test ELSE NoTest
    /\ df' = IF ret'.raised # "" THEN df
             ELSE [idx \in DOMAIN df |-> drop(df[idx], STATUS_COLUMN_NAME)]
    /\ UNCHANGED <<csv_file, test_spec>>

\* the records property is read; the caller keeps element i of the list (none when i = 0)
records(i) ==
    /\ ret' = Returned("records", None, records_list(df))
    /\ record' = IF i = 0 \/ ret'.raised # "" THEN record ELSE ret'.value[i]
    /\ test' = IF record' = record THEN test ELSE NoTest
    /\ UNCHANGED <<csv_file, df, test_spec>>

get_last_record ==
    LET l == loaded(csv_file)
        r == IF l.raised # "" THEN Raise(l.raised)
             ELSE IF l.value = <<>> THEN Raise("ValueError")
             ELSE TestDataRecord(l.value[argmax(l.value)])
    IN  /\ df' = l.value
        /\ ret' = Returned("get_last_record", None, r)
        /\ record' = IF r.raised # "" THEN record ELSE r.value
        /\ test' = IF record' = record THEN test ELSE NoTest
        /\ UNCHANGED <<csv_file, test_spec>>

\* record.build_failstring() on the record the caller holds
BuildFailstring ==
    /\ record # NoRecord
    /\ ret' = Returned("build_failstring", record, build_failstring(record))
    /\ UNCHANGED <<csv_file, df, test_spec, record, test>>

----------------------------------------------------------------------------
(* Direct use of TestDataRecord and Test *)

OptCell(label, vals) == {<<>>} \cup {<<Cell(label, v)>> : v \in vals}

\* rows handed to TestDataRecord directly: with or without the status field
InputRows ==
    { a \o b \o c \o d :
        a \in OptCell(STATUS_COLUMN_NAME,
                      {StrV(<<"PASS">>), StrV(<<"FAIL">>), StrV(<<"PASS", "-SOMETHING">>), NaN}),
        b \in OptCell(Voltage \o MEAS_SUFFIX, {FloatV(48)}),
        c \in OptCell(Voltage, {StrV(<<"PASS">>), StrV(<<"FAIL">>)}),
        d \in OptCell(Relay, {StrV(<<"PASS">>), StrV(<<"FAIL">>)})
              \cup OptCell(Current, {StrV(<<"FAIL">>)}) }

\* TestDataRecord(csv, row): the caller keeps the record when none is raised
NewTestDataRecord(row) ==
    /\ ret' = Returned("TestDataRecord", row, TestDataRecord(row))
    /\ record' = IF ret'.raised # "" THEN record ELSE ret'.value
    /\ test' = IF record' = record THEN test ELSE NoTest
    /\ UNCHANGED <<csv_file, df, test_spec>>

\* Test(record, name, data) for field i of the record the caller holds
NewTest(i) ==
    /\ record # NoRecord
    /\ i \in DOMAIN record.data
    /\ ret' = Returned("Test", record.data[i], Test(record, record.data[i].label, record.data[i].val))
    /\ test' = IF ret'.raised # "" THEN test ELSE ret'.value
    /\ UNCHANGED <<csv_file, df, test_spec, record>>

\* test.meas is read
ReadMeas ==
    /\ test # NoTest
    /\ ret' = [op |-> "meas", arg |-> test, raised |-> meas(test).raised, value |-> meas(test).value]
    /\ test' = meas(test).self
    /\ UNCHANGED <<csv_file, df, test_spec, record>>

----------------------------------------------------------------------------
(* Specifications *)

NoReturn == Returned("", None, Ok(None))

\* TdrsCsv(csv_path, test_spec) on a csv file of at most one row
Init ==
    /\ csv_file \in {<<>>} \cup {<<r>> : r \in AteRows}
    /\ df = loaded(csv_file).value
    /\ test_spec \in TableSpecLookups
    /\ record = NoRecord
    /\ test = NoTest
    /\ ret = NoReturn

Next ==
    \/ \E row \in AteRows : AppendRow(row)
    \/ update_df
    \/ \E i \in 0..Len(df) : records(i)
    \/ get_last_record
    \/ BuildFailstring

Spec == Init /\ [][Next]_vars

\* records and tests built directly, over an empty csv file
InitRecord ==
    /\ csv_file = <<>>
    /\ df = <<>>
    /\ test_spec \in SpecLookups
    /\ record = NoRecord
    /\ test = NoTest
    /\ ret = NoReturn

NextRecord ==
    \/ \E row \in InputRows : NewTestDataRecord(row)
    \/ \E i \in 1..Len(record.data) : NewTest(i)
    \/ ReadMeas
    \/ BuildFailstring

SpecRecord == InitRecord /\ [][NextRecord]_vars

----------------------------------------------------------------------------
(* Properties.  ret is the outcome of the last step, so a formula guarded by *)
(* ret.op speaks of the state right after that operation.                    *)

\* a raw name cut at its first " [", stated without name()
CutAtFirst(raw) ==
    LET cuts == {i \in 1..(Len(raw) - 1) : raw[i] = " " /\ raw[i + 1] = "["}
    IN  IF cuts = {} THEN raw
        ELSE SubSeq(raw, 1, (CHOOSE i \in cuts : \A j \in cuts : i <= j) - 1)

IsBool(v) == v \in {BoolV(TRUE), BoolV(FALSE)}

\* C2: for every row that carries the overall-result field, the record built
\* from it has status true iff that field's value is exactly the text "PASS";
\* "FAIL", "PASS-SOMETHING" and an empty cell give status false.
C2_StatusIffExactlyPass ==
    (ret.op = "TestDataRecord" /\ HasLabel(ret.arg, STATUS_COLUMN_NAME)) =>
        /\ ret.raised = ""
        /\ IsBool(ret.value.status)
        /\ (ret.value.status = BoolV(TRUE))
             <=> (getitem(ret.arg, STATUS_COLUMN_NAME) = StrV(<<"PASS">>))

C2_Witness ==
    /\ ret.op = "TestDataRecord"
    /\ HasLabel(ret.arg, STATUS_COLUMN_NAME)
    /\ getitem(ret.arg, STATUS_COLUMN_NAME) = StrV(<<"PASS", "-SOMETHING">>)
    /\ ret.value.status = BoolV(FALSE)

C6_UnregisteredNameRaises ==
    /\ (ret.op = "Test" /\ CutAtFirst(ret.arg.label) \notin DOMAIN test_spec)
          => ret.raised = "KeyError"
    /\ (ret.op = "Test" /\ ret.raised = "")
          => (test = ret.value /\ CutAtFirst(ret.arg.label) \in DOMAIN test_spec)
    /\ (ret.op = "build_failstring"
          /\ \E i \in DOMAIN ret.arg.data :
                CutAtFirst(ret.arg.data[i].label) \notin DOMAIN test_spec)
          => ret.raised = "KeyError"
    /\ test # NoTest =>
          /\ CutAtFirst(test._name) \in DOMAIN test_spec
          /\ test.spec = test_spec[CutAtFirst(test._name)]

C6_Witness ==
    /\ ret.op = "Test"
    /\ ret.arg.label = Current
    /\ CutAtFirst(ret.arg.label) \notin DOMAIN test_spec
    /\ ret.raised = "KeyError"

\* the case of C7: a DBL test without a '{name} [MEAS]' sibling and with a
\* nominal that is neither 1.0 nor 0.0
DblNoSiblingNoBinary(t) ==
    /\ t.spec.data_type = "DBL"
    /\ ~HasLabel(t.record.data, CutAtFirst(t._name) \o MEAS_SUFFIX)
    /\ t.spec.nominal \notin {FloatV(10), FloatV(0)}

\* C7 as claimed: in that case meas returns an absent value and operator
\* keeps the value it had before meas was read.
C7_OperatorLeftUnset ==
    (ret.op = "meas" /\ DblNoSiblingNoBinary(ret.arg)) =>
        /\ ret.raised = ""
        /\ ret.value = None
        /\ test.operator = ret.arg.operator

\* C7 amended: in that case meas returns an absent value and operator is
\* '<>' afterwards, the value assigned before the sibling lookup failed.
C7_OperatorIsTolerance ==
    (ret.op = "meas" /\ DblNoSiblingNoBinary(ret.arg)) =>
        /\ ret.raised = ""
        /\ ret.value = None
        /\ test.operator = StrV(<<"<>">>)
        /\ test = [ret.arg EXCEPT !.operator = StrV(<<"<>">>)]

C7_Witness ==
    /\ ret.op = "meas"
    /\ DblNoSiblingNoBinary(ret.arg)
    /\ ret.arg.operator = None
    /\ test.operator = StrV(<<"<>">>)

\* the case of C8: a DBL test whose record has the '{name} [MEAS]' sibling
DblWithSibling(t) ==
    /\ t.spec.data_type = "DBL"
    /\ HasLabel(t.record.data, CutAtFirst(t._name) \o MEAS_SUFFIX)

\* C8: for a DBL test whose record has a sibling field '{name} [MEAS]', meas
\* returns the sibling's raw value and operator is '<>' afterwards, whatever
\* the nominal is.
C8_SiblingValueAndTolerance ==
    (ret.op = "meas" /\ DblWithSibling(ret.arg)) =>
        /\ ret.raised = ""
        /\ ret.value = getitem(ret.arg.record.data, CutAtFirst(ret.arg._name) \o MEAS_SUFFIX)
        /\ test.operator = StrV(<<"<>">>)

C8_Witness ==
    /\ ret.op = "meas"
    /\ DblWithSibling(ret.arg)
    /\ ret.arg.spec.nominal = FloatV(10)
    /\ ret.arg._name = Voltage
    /\ ret.value = FloatV(48)
    /\ test.operator = StrV(<<"<>">>)

----------------------------------------------------------------------------
(* The fail string, stated from the fields of the record *)

FailedFields(rec) == SelectSeq(rec.data, LAMBDA c : Contains(Str(c.val), "FAIL"))

AllRegistered(rec) ==
    \A i \in DOMAIN rec.data : CutAtFirst(rec.data[i].label) \in DOMAIN test_spec

\* the line of a failed field: the tag, then name, meas, high limit, low limit,
\* nominal, units and operator, comma separated, then a newline
ExpectedLine(rec, c) ==
    LET sp == test_spec[CutAtFirst(c.label)]
        m == meas(Test(rec, c.label, c.val).value)
    IN  <<"|ftestres=0,">> \o CutAtFirst(c.label)
        \o <<",">> \o Str(m.value)
        \o <<",">> \o Str(sp.high_limit)
        \o <<",">> \o Str(sp.low_limit)
        \o <<",">> \o Str(sp.nominal)
        \o <<",">> \o Str(sp.units)
        \o <<",">> \o Str(m.self.operator)
        \o <<"\n">>

RECURSIVE ExpectedFrom(_, _, _)
ExpectedFrom(rec, cells, i) ==
    IF i > Len(cells) THEN <<>>
    ELSE ExpectedLine(rec, cells[i]) \o ExpectedFrom(rec, cells, i + 1)

ExpectedReport(rec) == ExpectedFrom(rec, FailedFields(rec), 1)

\* C1 as claimed: for every record build_failstring returns one line per failed
\* test, in order, each with the seven fields in the fixed order; with no
\* failed test it returns the empty string and raises nothing.
C1_ReportForEveryRecord ==
    ret.op = "build_failstring" =>
        /\ ret.raised = ""
        /\ FailedFields(ret.arg) = <<>> => ret.value = <<>>
        /\ ret.value = ExpectedReport(ret.arg)

\* C1 amended: for every record whose remaining fields all have a registered
\* canonical name, build_failstring returns one line per failed test, in
\* order, each with the seven fields in the fixed order, and the empty string
\* when no test failed; for a record with an unregistered field it raises the
\* lookup error, failed tests or not.
C1_ReportWhenAllRegistered ==
    ret.op = "build_failstring" =>
        IF AllRegistered(ret.arg)
        THEN /\ ret.raised = ""
             /\ FailedFields(ret.arg) = <<>> => ret.value = <<>>
             /\ ret.value = ExpectedReport(ret.arg)
        ELSE ret.raised = "KeyError"

C1_Witness ==
    /\ ret.op = "build_failstring"
    /\ AllRegistered(ret.arg)
    /\ Len(FailedFields(ret.arg)) = 2
    /\ ret.raised = ""
    /\ ret.value = ExpectedLine(ret.arg, FailedFields(ret.arg)[1])
                     \o ExpectedLine(ret.arg, FailedFields(ret.arg)[2])

----------------------------------------------------------------------------
(* The csv file as the records see it *)

\* the time a row of the csv file carries
TimeOf(row) == CHOOSE t \in 0..9 : getitem(row, DATE_COLUMN_NAME) = StrV(TimeText(t))

\* the record of a row of the csv file: its fields but the overall result,
\* its date as a timestamp
RecordOfRow(row, rec) ==
    /\ rec.date = TimestampV(TimeOf(row))
    /\ rec.serial = getitem(row, SERIAL_COLUMN_NAME)
    /\ Len(rec.data) = Len(row) - 1
    /\ \A j \in DOMAIN row :
          row[j].label # STATUS_COLUMN_NAME =>
              get(rec.data, row[j].label) =
                  IF row[j].label = DATE_COLUMN_NAME THEN rec.date ELSE row[j].val

\* C4: get_last_record re-reads the csv file and returns the record of a row
\* whose timestamp is greatest among all rows in the file at the call, rows
\* appended since the previous load included; on a file without rows it raises.
C4_LatestOfCurrentFile ==
    ret.op = "get_last_record" =>
        /\ Len(df) = Len(csv_file)
        /\ IF csv_file = <<>> THEN ret.raised # ""
           ELSE /\ ret.raised = ""
                /\ record = ret.value
                /\ \E i \in DOMAIN csv_file :
                      /\ RecordOfRow(csv_file[i], ret.value)
                      /\ \A j \in DOMAIN csv_file : TimeOf(csv_file[j]) <= TimeOf(csv_file[i])

C4_Witness ==
    /\ ret.op = "get_last_record"
    /\ Len(csv_file) = MaxRows
    /\ TimeOf(csv_file[1]) > TimeOf(csv_file[Len(csv_file)])
    /\ ret.raised = ""
    /\ ret.value.date = TimestampV(TimeOf(csv_file[1]))

ScenarioRecord(rec) ==
    /\ rec.date.k = "Timestamp"
    /\ rec.serial = StrV(<<"SN123">>)
    /\ [i \in DOMAIN rec.data |-> rec.data[i].label]
          = <<DATE_COLUMN_NAME, SERIAL_COLUMN_NAME, Voltage \o MEAS_SUFFIX, Voltage>>
    /\ rec.data[3].val = FloatV(48)
    /\ rec.data[4].val = StrV(<<"FAIL">>)

ScenarioLine ==
    <<"|ftestres=0,", "Voltage", ",", "4", ".", "8", ",", "5", ".", "1", ",",
      "4", ".", "9", ",", "5", ".", "0", ",", "V", ",", "<>", "\n">>

\* C5 as claimed: with a lookup that registers only 'Voltage', the record of
\* the scenario row has status false and build_failstring returns exactly the
\* scenario line.
C5_ScenarioOnlyVoltage ==
    (ret.op = "build_failstring" /\ ScenarioRecord(ret.arg) /\ test_spec = OnlyVoltage) =>
        /\ ret.arg.status = BoolV(FALSE)
        /\ ret.raised = ""
        /\ ret.value = ScenarioLine

\* C5 amended: the record of the scenario row has status false; with a lookup
\* that registers 'Voltage' and the timestamp and serial columns, tests yields
\* one Test per remaining field, the one failed test is 'Voltage' with meas 4.8
\* and operator '<>', and build_failstring returns exactly the scenario line;
\* with a lookup that registers only 'Voltage' build_failstring raises the
\* lookup error of the timestamp field.
C5_ScenarioAllColumns ==
    (ret.op = "build_failstring" /\ ScenarioRecord(ret.arg)) =>
        /\ ret.arg.status = BoolV(FALSE)
        /\ test_spec = OnlyVoltage => ret.raised = "KeyError"
        /\ test_spec = AllColumns =>
              /\ ret.raised = ""
              /\ ret.value = ScenarioLine
              /\ Len(tests(ret.arg).value) = Len(ret.arg.data)
              /\ Len(get_failed_tests(ret.arg).value) = 1
              /\ LET t == get_failed_tests(ret.arg).value[1]
                 IN  /\ name(t) = Voltage
                     /\ meas(t).value = FloatV(48)
                     /\ meas(t).self.operator = StrV(<<"<>">>)

C5_Witness ==
    /\ ret.op = "build_failstring"
    /\ ScenarioRecord(ret.arg)
    /\ test_spec = AllColumns
    /\ ret.value = ScenarioLine

StatusOfRow(row) == BoolV(getitem(row, STATUS_COLUMN_NAME) = StrV(<<"PASS">>))

\* C10: reading records and building a fail string leave the loaded table as
\* it is: every row of it keeps its overall-result field, every enumeration
\* yields one record per row of the table with the status of that row, and two
\* enumerations in a row yield the same statuses.
C10_TableUnchanged ==
    /\ [][ret'.op \in {"records", "build_failstring"} => df' = df]_vars
    /\ [][(ret.op = "records" /\ ret'.op = "records") =>
            [i \in DOMAIN ret'.value |-> ret'.value[i].status]
               = [i \in DOMAIN ret.value |-> ret.value[i].status]]_vars
    /\ [](ret.op \in {"records", "build_failstring"} =>
            \A i \in DOMAIN df : HasLabel(df[i], STATUS_COLUMN_NAME))
    /\ [](ret.op = "records" =>
            /\ ret.raised = ""
            /\ Len(ret.value) = Len(df)
            /\ \A i \in DOMAIN df :
                  /\ HasLabel(df[i], STATUS_COLUMN_NAME)
                  /\ ret.value[i].status = StatusOfRow(df[i]))

C10_Witness ==
    /\ ret.op = "build_failstring"
    /\ ret.raised = ""
    /\ Len(df) = MaxRows
    /\ record.status = BoolV(FALSE)
    /\ \A i \in DOMAIN df : HasLabel(df[i], STATUS_COLUMN_NAME)
    /\ ~HasLabel(record.data, STATUS_COLUMN_NAME)

====
